---- MODULE Spec2Model ----
(***************************************************************************)
(* Model of the WAHA outbound dispatch client                              *)
(* (custom_components/waha/api_client.py, helpers.py).                     *)
(*                                                                         *)
(* One WahaApiClient is constructed with some rate_limit.  A fixed set of  *)
(* asyncio tasks call send_message on it.  Code between two awaits runs    *)
(* atomically (cooperative scheduling), so every action is one stretch of  *)
(* code from one suspension point to the next.  Time is in whole seconds;  *)
(* the clock never goes back, and a sleep never returns early.             *)
(***************************************************************************)
EXTENDS Integers, Sequences, FiniteSets, TLC

(* ---- bounds of the model ---------------------------------------------- *)
NumTasks == 2
MaxRateLimit == 2
MaxCalls == 3
MaxTime == 120
MaxClients == 3
MaxTargets == 2

(* ---- program constants ------------------------------------------------ *)
WINDOW_SECONDS == 60
MAX_DELAY == 10
BACKOFF_FACTOR == 2
DEFAULT_RETRY_ATTEMPTS == 3
DEFAULT_RETRY_DELAY == 1
DEFAULT_TIMEOUT == 30
TEST_CONNECTION_TIMEOUT == 10
PHONE_MIN_DIGITS == 10
PHONE_MAX_DIGITS == 15

(* ---- inputs ----------------------------------------------------------- *)
Tasks == 1..NumTasks
\* the tasks that call the client when calls do not overlap
Callers == {1}
\* the two tasks that compete for the limiter in the fair specification
FairCallers == {1, 2}
NoTask == 0
RateLimitChoices == (-1)..MaxRateLimit
RetryAttemptChoices == {0, 1, DEFAULT_RETRY_ATTEMPTS}
\* The attempt counts drawn when several calls are in flight at once:
\* every caller in the repository leaves retry_attempts at its default.
ConcurrentAttemptChoices == {DEFAULT_RETRY_ATTEMPTS}
\* retry_delay: the default, and a delay above max_delay
RetryDelayChoices == {DEFAULT_RETRY_DELAY, 2 * MAX_DELAY}
ConcurrentDelayChoices == {DEFAULT_RETRY_DELAY}
TickSteps == {30}
\* What the gateway (or the network) does with one HTTP request.  "200" is a
\* 200 response whose body parses as JSON, as the gateway's own replies do;
\* "200_wrong_type" is a 200 whose Content-Type is not JSON.
GatewayOutcomes ==
    {"200", "200_invalid_json", "200_undecodable", "200_wrong_type", "401",
     "429", "500", "timeout", "client_error"}
\* 200 responses whose JSON body is not what the operation reads: an object
\* without the field it looks up, and a value that is not an object.
BodyOutcomes == {"200_no_field", "200_not_object"}
\* The client's operations that issue one request and do not pass through
\* the rate limiter.
SingleRequestOps ==
    {"test_connection", "get_session_status", "get_qr_code", "logout"}
\* The outcomes drawn when several calls are in flight at once.
MixedOutcomes == {"200", "timeout"}
ConcurrentOutcomes == {"200", "500"}

\* api_key as the config entry gives it: absent, or a key
ApiKeyChoices == {"None", "secret"}
\* the configuration the client is constructed with
ConfigChoices ==
    {[base_url |-> "http://waha:3000", api_key |-> k,
      session_name |-> "home-assistant", timeout |-> DEFAULT_TIMEOUT] :
         k \in ApiKeyChoices}
\* a task that has no request out has no request headers
NoHeaders == [Authorization |-> [scheme |-> "none", credentials |-> "none"]]

\* Phone numbers as the sequence of their pieces: "+", a run of ten digits
\* ("d10"), a run of five digits ("d5"), a separator character ("-"),
\* letters ("x") and the suffix "@c.us".
PhoneChoices ==
    {<<"+", "d10">>, <<"d10">>, <<"x">>, <<"+", "d5", "-", "d5">>,
     <<"d10", "@c.us">>}
RECURSIVE SeqsUpTo(_, _)
SeqsUpTo(S, n) ==
    IF n = 0 THEN {<< >>}
    ELSE LET shorter == SeqsUpTo(S, n - 1) IN
         shorter \cup {Append(q, x) : q \in shorter, x \in S}
\* kwargs.get(ATTR_TARGET): absent, a list of numbers, or one number as str
TargetArgs ==
    {[kind |-> "none", list |-> << >>]}
        \cup {[kind |-> "list", list |-> l] : l \in SeqsUpTo(PhoneChoices, MaxTargets)}
        \cup {[kind |-> "str", list |-> <<ph>>] : ph \in PhoneChoices}
DefaultRecipientChoices == {<< >>, <<<<"+", "d10">>>>}
MessageChoices == {"Hello!", ""}

\* Config entries of the integration.  An entry id is a string, written as
\* the sequence of its pieces, so that the pieces "waha_" and "_webhook" can
\* occur inside it.
\* entry.data[CONF_PHONE_NUMBERS] of the config entries: one recipient
ConfiguredPhoneNumbers == << <<"+", "d10">> >>
\* no entry: the service is not registered yet
NoEntry == << >>
EntryIds == {<<"abc">>, <<"waha_", "abc">>}
\* the WahaApiClient objects that async_setup_entry creates, in order
ClientIds == 1..MaxClients
NoClient == 0
\* How a run of async_setup_entry goes: the connection test fails, the
\* status query raises, forwarding the setup to the platforms raises, or
\* everything succeeds.
SetupOutcomes == {"ok", "test_fails", "status_raises", "forward_raises"}
\* WEBHOOK_ID_TEMPLATE = "waha_{entry_id}_webhook"
WebhookIdOf(entry_id) == <<"waha_">> \o entry_id \o <<"_webhook">>
\* Webhook ids of requests: those of the entries, that of an entry that does
\* not exist, one with another prefix, one without the suffix and one
\* without the prefix.
WebhookIds ==
    {WebhookIdOf(e) : e \in EntryIds \cup {<<"nonexistent">>}}
        \cup {<<"invalid_", "abc", "_webhook">>, <<"waha_", "abc">>,
              <<"abc", "_webhook">>}
\* Request bodies: not JSON; an object with sender and body; an object
\* without sender; an array; null.
WebhookBodies ==
    {"not_json", "object_full", "object_no_sender", "array", "null"}

VARIABLES
    config,              \* self.base_url, api_key, session_name, timeout
    session,             \* self._session: "None", "open" or "closed"
    closing,             \* a close() call is suspended in session.close()
    orphans,             \* open sessions self._session no longer refers to
    headers,             \* headers of the request each task has out
    registry,            \* hass.data[DOMAIN]: entry id -> its client
    sessions,            \* the aiohttp session of every client created
    clients_made,        \* WahaApiClient objects created so far
    history,             \* per entry: its latest setup, unloaded since
    notify,              \* the latest notify call and what it did
    webhook,             \* the latest inbound webhook request and answer
    service_entry,       \* the entry the waha.send_message handler closes over
    service,             \* the latest waha.send_message call and what it did
    platforms,           \* per entry: what its platforms found at setup
    rate_limit,          \* self.rate_limit
    constructed,         \* WahaApiClient.__init__ returned without raising
    message_timestamps,  \* self.message_timestamps (deque, oldest first)
    lock,                \* holder of self._rate_limit_lock, NoTask when free
    waiters,             \* FIFO queue of tasks blocked in lock.acquire()
    now,                 \* time.time()
    pc,                  \* where each task is suspended
    wake,                \* time at which a sleeping task may resume
    retry_attempts,      \* send_message argument
    retry_delay,         \* send_message argument
    attempt,             \* async_retry loop variable
    current_delay,       \* async_retry local
    last_exception,      \* async_retry local
    requests,            \* HTTP requests issued by the current call
    sleeps,              \* delays slept by async_retry in the current call
    responses,           \* gateway outcomes seen by the current call
    result,              \* what send_message gave its caller
    slots,               \* timestamps appended by the current call
    waited,              \* wait_time slept in _wait_for_rate_limit, 0 if none
    admitted,            \* every timestamp ever appended (history)
    op,                  \* the client method each task is in
    classified,          \* what _make_request gave for the latest request
    calls                \* send_message calls started so far

clientVars == <<rate_limit, constructed, message_timestamps, lock, waiters>>
retryVars == <<retry_attempts, retry_delay, attempt, current_delay,
               last_exception, requests, sleeps, responses>>
callVars == <<pc, wake, result, slots, waited>>
opVars == <<op, classified>>
wireVars == <<session, headers, closing, orphans>>
hostVars == <<registry, sessions, clients_made, history, notify, webhook,
              service_entry, service, platforms>>
vars == <<clientVars, now, retryVars, callVars, opVars, admitted, calls,
          config, wireVars, hostVars>>

(* ---- pure helpers ----------------------------------------------------- *)
Min(a, b) == IF a <= b THEN a ELSE b

\* deque(maxlen=rate_limit) raises ValueError for a negative maxlen.
ConstructorAccepts(limit) == limit >= 0

\* slip: the deque is created without maxlen
DequeAppendUnbounded(q, x, maxlen) == Append(q, x)

\* deque(maxlen=rate_limit).append: a full deque drops its leftmost element
DequeAppend(q, x, maxlen) ==
    IF maxlen = 0 THEN << >>
    ELSE IF Len(q) >= maxlen THEN Append(Tail(q), x)
    ELSE Append(q, x)

\* slip: the eviction loop is missing
EvictNothing(q, t) == q

\* while self.message_timestamps and now - self.message_timestamps[0] > 60
RECURSIVE Evict(_, _)
Evict(q, t) ==
    IF q /= << >> /\ t - Head(q) > WINDOW_SECONDS THEN Evict(Tail(q), t)
    ELSE q

\* slip: capacity test off by one
AtCapacityOffByOne(q, limit) == Len(q) > limit

\* if len(self.message_timestamps) >= self.rate_limit
AtCapacity(q, limit) == Len(q) >= limit

\* slip: the wait is measured from the newest timestamp
WaitTimeFromNewest(q, t) == WINDOW_SECONDS - (t - q[Len(q)])

\* wait_time = 60 - (now - self.message_timestamps[0])
WaitTime(q, t) == WINDOW_SECONDS - (t - Head(q))

\* slip: the status test accepts 201 instead of 200
MakeRequestExpects201(outcome) ==
    CASE outcome = "401" -> "WahaAuthenticationError"
      [] outcome = "429" -> "WahaRateLimitError"
      [] outcome = "timeout" -> "WahaConnectionError"
      [] outcome = "client_error" -> "WahaConnectionError"
      [] OTHER -> "WahaApiError"

\* slip: the 429 branch is missing
MakeRequestNo429(outcome) ==
    CASE outcome \in {"200", "200_no_field", "200_not_object"} -> "ok"
      [] outcome = "401" -> "WahaAuthenticationError"
      [] outcome = "200_undecodable" -> "UnicodeDecodeError"
      [] outcome = "200_wrong_type" -> "WahaConnectionError"
      [] outcome = "timeout" -> "WahaConnectionError"
      [] outcome = "client_error" -> "WahaConnectionError"
      [] OTHER -> "WahaApiError"

\* _make_request: what the awaited call yields for a gateway outcome.
\* resp.json() on a 200 body that is not valid JSON raises JSONDecodeError,
\* which is wrapped; a body that cannot be decoded as text raises
\* UnicodeDecodeError, which no except clause of _make_request names; a 200
\* whose Content-Type is not JSON raises aiohttp.ContentTypeError, which is a
\* ClientError.
MakeRequest(outcome) ==
    CASE outcome = "200" -> "ok"
      [] outcome = "200_no_field" -> "ok"
      [] outcome = "200_not_object" -> "ok"
      [] outcome = "401" -> "WahaAuthenticationError"
      [] outcome = "429" -> "WahaRateLimitError"
      [] outcome = "200_invalid_json" -> "WahaApiError"
      [] outcome = "200_undecodable" -> "UnicodeDecodeError"
      [] outcome = "200_wrong_type" -> "WahaConnectionError"
      [] outcome = "timeout" -> "WahaConnectionError"
      [] outcome = "client_error" -> "WahaConnectionError"
      [] OTHER -> "WahaApiError"

\* What the exception raised by _make_request carries: WahaApiError(message,
\* status_code, response_text) with the arguments each raise passes.
MakeRequestCarries(outcome) ==
    CASE outcome \in {"401", "429"} -> {"status"}
      [] outcome \in {"500", "200_invalid_json"} -> {"status", "text"}
      [] OTHER -> {}

Classification(outcome) ==
    [class |-> MakeRequest(outcome), carries |-> MakeRequestCarries(outcome)]

NotClassified == [class |-> "none", carries |-> {}]

\* class hierarchy: every client exception derives from WahaApiError
IsWahaApiError(e) ==
    e \in {"WahaApiError", "WahaConnectionError",
           "WahaAuthenticationError", "WahaRateLimitError"}

\* _send: True on success, any WahaApiError re-raised as a plain Exception
SendOnce(outcome) ==
    LET r == MakeRequest(outcome) IN
    IF r = "ok" THEN "True"
    ELSE IF IsWahaApiError(r) THEN "Exception"
    ELSE r

\* async_retry: except exceptions as ex, with exceptions=(Exception,)
RetryCatches(e) == e /= "True"

\* slip: the loop gives up one attempt early
LastAttemptEarly(a, n) == a >= n - 1

\* async_retry: if attempt == attempts: break
LastAttempt(a, n) == a = n

\* slip: the delay never grows
NextDelayConstant(d) == d

\* async_retry: current_delay = min(current_delay * backoff_factor, max_delay)
NextDelay(d) == Min(d * BACKOFF_FACTOR, MAX_DELAY)

\* slip: send_message catches only the client's own exception class
SendMessageCatchesApiErrorOnly(e) == IsWahaApiError(e)

\* send_message: except Exception -> return False
SendMessageCatches(e) == TRUE

\* What resp.json() returns for a 200 response with a JSON body.
ResponseBody(outcome) ==
    CASE outcome = "200" -> "object_with_field"
      [] outcome = "200_no_field" -> "object_without_field"
      [] outcome = "200_not_object" -> "not_object"
      [] OTHER -> "none"

\* slip: test_connection accepts any JSON body
TestConnectionAnyBody(outcome) ==
    IF MakeRequest(outcome) = "ok" THEN "True" ELSE "False"

\* test_connection: True for a dict with "version"; except Exception -> False
TestConnectionResult(outcome) ==
    IF MakeRequest(outcome) = "ok"
    THEN IF ResponseBody(outcome) = "object_with_field" THEN "True" ELSE "False"
    ELSE "False"

\* get_qr_code, get_session_status: return response.get(<field>);
\* except WahaApiError -> None.  A body without .get raises AttributeError.
GetFieldResult(outcome) ==
    LET r == MakeRequest(outcome) IN
    IF r = "ok"
    THEN CASE ResponseBody(outcome) = "object_with_field" -> "value"
           [] ResponseBody(outcome) = "object_without_field" -> "None"
           [] OTHER -> "raised"
    ELSE IF IsWahaApiError(r) THEN "None"
    ELSE "raised"

\* logout: True; except WahaApiError -> False
LogoutResult(outcome) ==
    LET r == MakeRequest(outcome) IN
    IF r = "ok" THEN "True"
    ELSE IF IsWahaApiError(r) THEN "False"
    ELSE "raised"

OperationResult(o, outcome) ==
    CASE o = "test_connection" -> TestConnectionResult(outcome)
      [] o = "logout" -> LogoutResult(outcome)
      [] OTHER -> GetFieldResult(outcome)

\* class WahaApiClient defines no register_webhook method
HasRegisterWebhook == FALSE

\* slip: the Authorization header is built whether or not a key is set
GetHeadersAlwaysBearer(api_key) ==
    [Authorization |-> [scheme |-> "Bearer", credentials |-> api_key]]

\* _get_headers: Authorization: Bearer <key> only "if self.api_key"
GetHeaders(api_key) ==
    IF api_key /= "None"
    THEN [Authorization |-> [scheme |-> "Bearer", credentials |-> api_key]]
    ELSE NoHeaders

\* _get_session: a new ClientSession when there is none or it is closed
GetSession(s) == IF s \in {"None", "closed"} THEN "open" ELSE s

\* The None that validate_phone_number returns.
None == << >>

Digits(piece) ==
    CASE piece = "d10" -> 10
      [] piece = "d5" -> 5
      [] OTHER -> 0

RECURSIVE DigitCount(_)
DigitCount(ph) == IF ph = << >> THEN 0 ELSE Digits(Head(ph)) + DigitCount(Tail(ph))

AllDigits(ph) == \A i \in DOMAIN ph : ph[i] \in {"d10", "d5"}

IsDigitOrPlus(piece) == piece \in {"+", "d10", "d5"}

\* validate_phone_number: cleaned = re.sub(r'[^0-9+]', '', phone_number);
\* ^\+[0-9]{10,15}$ -> cleaned; ^[0-9]{10,15}$ -> "+" + cleaned; else None
ValidatePhoneNumber(phone_number) ==
    LET cleaned == SelectSeq(phone_number, IsDigitOrPlus) IN
    IF /\ cleaned /= << >>
       /\ Head(cleaned) = "+"
       /\ AllDigits(Tail(cleaned))
       /\ DigitCount(Tail(cleaned)) \in PHONE_MIN_DIGITS..PHONE_MAX_DIGITS
    THEN cleaned
    ELSE IF /\ AllDigits(cleaned)
            /\ DigitCount(cleaned) \in PHONE_MIN_DIGITS..PHONE_MAX_DIGITS
    THEN <<"+">> \o cleaned
    ELSE None

\* str.lstrip('+')
RECURSIVE LStripPlus(_)
LStripPlus(ph) ==
    IF ph /= << >> /\ Head(ph) = "+" THEN LStripPlus(Tail(ph)) ELSE ph

\* slip: the leading '+' is kept in the chat id
ChatIdKeepsPlus(valid_number) == valid_number \o <<"@c.us">>

\* notify.py: chat_id = valid_number, or without "+" and with "@c.us"
\* appended when it does not end with "@c.us"
ChatId(valid_number) ==
    IF valid_number /= << >> /\ valid_number[Len(valid_number)] = "@c.us"
    THEN valid_number
    ELSE LStripPlus(valid_number) \o <<"@c.us">>

\* targets = kwargs.get(ATTR_TARGET); if not targets: default_recipients;
\* a str becomes a one-element list
EffectiveTargets(arg, defaults) ==
    IF arg.kind = "none" \/ arg.list = << >> THEN defaults ELSE arg.list

\* slip: the loop goes on to send after logging the invalid number
RECURSIVE NotifyCallsNoContinue(_, _)
NotifyCallsNoContinue(targets, message) ==
    IF targets = << >> THEN << >>
    ELSE LET valid_number == ValidatePhoneNumber(Head(targets)) IN
         <<[target |-> Head(targets),
            recipient |-> ChatId(IF valid_number = None THEN Head(targets)
                                 ELSE valid_number),
            message |-> message]>>
             \o NotifyCallsNoContinue(Tail(targets), message)

\* The loop of async_send_message: the send_message calls it makes, in
\* order, each with the target it was made for.
RECURSIVE NotifyCalls(_, _)
NotifyCalls(targets, message) ==
    IF targets = << >> THEN << >>
    ELSE LET valid_number == ValidatePhoneNumber(Head(targets)) IN
         IF valid_number = None
         THEN NotifyCalls(Tail(targets), message)
         ELSE <<[target |-> Head(targets),
                 recipient |-> ChatId(valid_number),
                 message |-> message]>>
                  \o NotifyCalls(Tail(targets), message)

\* the errors async_send_message logs
NotifyErrors(targets, sent, oks) ==
    (IF targets = << >> THEN {"no_recipients"} ELSE {})
        \cup (IF Len(sent) < Len(targets) THEN {"invalid_number"} ELSE {})
        \cup (IF \E i \in DOMAIN sent : ~oks[i] THEN {"send_failed"} ELSE {})

\* slip: success starts True and nothing clears it for an empty target list
NotifyResultEmptyIsSuccess(targets, sent, oks) ==
    IF Len(sent) = Len(targets) /\ \A i \in DOMAIN sent : oks[i]
    THEN "True" ELSE "False"

\* slip: success is overwritten by every send instead of being cleared
NotifyResultOfLastSend(targets, sent, oks) ==
    IF targets = << >> THEN "False"
    ELSE IF sent = << >> THEN "False"
    ELSE IF Len(sent) = Len(targets) /\ oks[Len(sent)]
    THEN "True" ELSE "False"

\* the value async_send_message returns
NotifyResult(targets, sent, oks) ==
    IF targets = << >> THEN "False"
    ELSE IF Len(sent) = Len(targets) /\ \A i \in DOMAIN sent : oks[i]
    THEN "True" ELSE "False"

\* str.replace(piece, ""): every occurrence of the piece is removed
Without(string, piece) == SelectSeq(string, LAMBDA x : x /= piece)

\* the keys of hass.data[DOMAIN]
RegistryKeys(reg) == {e \in DOMAIN reg : reg[e] /= NoClient}

\* slip: the prefix test is missing
IsValidWebhookRequestAnyPrefix(keys, webhook_id) ==
    Without(Without(webhook_id, "waha_"), "_webhook") \in keys

\* is_valid_webhook_request: startswith("waha_"), then
\* config_entry_id = webhook_id.replace("waha_", "").replace("_webhook", "")
\* must be in hass.data[DOMAIN]
IsValidWebhookRequest(keys, webhook_id) ==
    IF ~(webhook_id /= << >> /\ Head(webhook_id) = "waha_") THEN FALSE
    ELSE LET config_entry_id ==
                 Without(Without(webhook_id, "waha_"), "_webhook")
         IN  config_entry_id \in keys

\* handle_webhook: 403, 400 or 200 and the events fired.  "key in data"
\* raises TypeError when the JSON body is null (or a number), and nothing
\* in the handler catches it.
HandleWebhookResult(keys, webhook_id, body) ==
    IF ~IsValidWebhookRequest(keys, webhook_id)
    THEN [status |-> "403", events |-> << >>]
    ELSE IF body = "not_json" THEN [status |-> "400", events |-> << >>]
    ELSE IF body = "null" THEN [status |-> "raised", events |-> << >>]
    ELSE IF body \in {"object_no_sender", "array"}
    THEN [status |-> "400", events |-> << >>]
    ELSE [status |-> "200", events |-> <<"waha_message_received">>]

\* close() seen from the registry: an open session becomes closed
CloseSession(sess, c) ==
    IF sess[c] = "open" THEN [sess EXCEPT ![c] = "closed"] ELSE sess

\* async_unload_entry on the host state h: when the platforms unload and
\* the entry is stored, close its client and pop the entry.
UnloadEntry(h, e, unload_ok) ==
    IF unload_ok /\ h.registry[e] /= NoClient
    THEN [h EXCEPT !.sessions = CloseSession(h.sessions, h.registry[e]),
                   !.registry[e] = NoClient,
                   !.history[e].unloaded = TRUE]
    ELSE IF unload_ok THEN [h EXCEPT !.history[e].unloaded = TRUE]
    ELSE h

\* _async_register_services: the handler closing over this entry is
\* registered unless hass.services.has_service(DOMAIN, "send_message")
RegisterServices(bound, e) ==
    IF bound = NoEntry THEN e ELSE bound

\* the waha.send_message handler registered for the entry bound: validate
\* the number, look the bound entry up in hass.data[DOMAIN], send through
\* its client to the chat id.
ServiceSendMessageResult(reg, bound, phone_number) ==
    LET valid_phone == ValidatePhoneNumber(phone_number) IN
    IF valid_phone = None
    THEN [outcome |-> "invalid_number", client |-> NoClient,
          recipient |-> None]
    ELSE IF reg[bound] = NoClient
    THEN [outcome |-> "not_found", client |-> NoClient, recipient |-> None]
    ELSE [outcome |-> "sent", client |-> reg[bound],
          recipient |-> ChatId(valid_phone)]

\* hass.data[DOMAIN][entry.entry_id] as async_setup_entry writes it
EntryRecord(c) ==
    [client |-> c, phone_numbers |-> ConfiguredPhoneNumbers,
     status |-> "WORKING"]

\* sensor.async_setup_entry: api_client = data["api_client"]
SensorSetup(data) ==
    IF "api_client" \in DOMAIN data
    THEN [result |-> "ok", api_client |-> data["api_client"]]
    ELSE [result |-> "KeyError", api_client |-> NoClient]

\* notify.async_setup_entry: client = entry_data["client"],
\* default_recipients = entry_data.get("default_recipients", [])
NotifySetup(entry_data) ==
    IF "client" \notin DOMAIN entry_data
    THEN [result |-> "KeyError", client |-> NoClient,
          default_recipients |-> << >>]
    ELSE [result |-> "ok", client |-> entry_data["client"],
          default_recipients |->
              IF "default_recipients" \in DOMAIN entry_data
              THEN entry_data["default_recipients"] ELSE << >>]

\* the platforms of PLATFORMS, each set up from the entry's record
PlatformsSetup(data) ==
    [sensor |-> SensorSetup(data), notify |-> NotifySetup(data)]

\* no platform was set up for the entry
NoPlatforms ==
    [sensor |-> [result |-> "none", api_client |-> NoClient],
     notify |-> [result |-> "none", client |-> NoClient,
                 default_recipients |-> << >>]]

\* async_setup_entry on the host state h: a new client is created and
\* test_connection opens its session; when the connection test fails or
\* the status query raises, ConfigEntryNotReady is raised and nothing is
\* stored; otherwise the entry is stored, and ConfigEntryNotReady is still
\* raised when the platform setup that follows raises.
SetupEntry(h, e, outcome) ==
    LET c == h.clients_made + 1 IN
    IF outcome = "ok"
    THEN [h EXCEPT !.clients_made = c,
                   !.sessions[c] = "open",
                   !.registry[e] = c,
                   !.history[e] = [setup |-> "ok", unloaded |-> FALSE],
                   !.platforms[e] = PlatformsSetup(EntryRecord(c)),
                   !.service_entry = RegisterServices(h.service_entry, e)]
    ELSE IF outcome = "forward_raises"
    THEN [h EXCEPT !.clients_made = c,
                   !.sessions[c] = "open",
                   !.registry[e] = c,
                   !.history[e] = [setup |-> "failed", unloaded |-> FALSE]]
    ELSE [h EXCEPT !.clients_made = c,
                   !.sessions[c] = "open",
                   !.history[e] = [setup |-> "failed", unloaded |-> FALSE]]

\* the latest notify call, none yet
NoNotify == [arg |-> [kind |-> "none", list |-> << >>], defaults |-> << >>,
             message |-> "none", sent |-> << >>, errors |-> {},
             result |-> "none"]
\* the latest waha.send_message call, none yet
NoService == [phone_number |-> None, loaded |-> {}, outcome |-> "none",
              client |-> NoClient, recipient |-> None]
\* the latest webhook request, none yet
NoWebhook ==
    [id |-> << >>, body |-> "none", keys |-> {}, valid |-> FALSE,
     status |-> "none", events |-> << >>]

(* ---- initial state ---------------------------------------------------- *)
Init ==
    /\ rate_limit \in RateLimitChoices
    /\ constructed = ConstructorAccepts(rate_limit)
    /\ message_timestamps = << >>
    /\ lock = NoTask
    /\ waiters = << >>
    /\ now = 0
    /\ pc = [t \in Tasks |-> "idle"]
    /\ wake = [t \in Tasks |-> 0]
    /\ retry_attempts = [t \in Tasks |-> 0]
    /\ retry_delay = [t \in Tasks |-> 0]
    /\ attempt = [t \in Tasks |-> 0]
    /\ current_delay = [t \in Tasks |-> 0]
    /\ last_exception = [t \in Tasks |-> "None"]
    /\ requests = [t \in Tasks |-> 0]
    /\ sleeps = [t \in Tasks |-> << >>]
    /\ responses = [t \in Tasks |-> << >>]
    /\ result = [t \in Tasks |-> "none"]
    /\ slots = [t \in Tasks |-> 0]
    /\ waited = [t \in Tasks |-> 0]
    /\ admitted = << >>
    /\ op = [t \in Tasks |-> "none"]
    /\ classified = [t \in Tasks |-> NotClassified]
    /\ calls = 0
    /\ config \in ConfigChoices
    /\ session = "None"
    /\ closing = FALSE
    /\ orphans = 0
    /\ headers = [t \in Tasks |-> NoHeaders]
    /\ registry = [e \in EntryIds |-> NoClient]
    /\ sessions = [c \in ClientIds |-> "none"]
    /\ clients_made = 0
    /\ history = [e \in EntryIds |-> [setup |-> "none", unloaded |-> FALSE]]
    /\ notify = NoNotify
    /\ webhook = NoWebhook
    /\ service_entry = NoEntry
    /\ service = NoService
    /\ platforms = [e \in EntryIds |-> NoPlatforms]

(* ---- fragments shared by the actions ---------------------------------- *)
\* _make_request up to its await: the session is fetched (or created) and
\* the request goes out with the headers of _get_headers.
IssueRequest(t) ==
    /\ session' = GetSession(session)
    /\ headers' = [headers EXCEPT ![t] = GetHeaders(config.api_key)]
    /\ UNCHANGED <<closing, orphans>>

\* send_message after _wait_for_rate_limit returned: async_retry starts.
\* range(1, attempts + 1) is empty for attempts <= 0, and then
\* "raise last_exception" raises TypeError, which send_message catches.
StartRetry(t, n, d) ==
    /\ current_delay' = [current_delay EXCEPT ![t] = d]
    /\ last_exception' = [last_exception EXCEPT ![t] = "None"]
    /\ sleeps' = [sleeps EXCEPT ![t] = << >>]
    /\ responses' = [responses EXCEPT ![t] = << >>]
    /\ IF n >= 1
       THEN /\ attempt' = [attempt EXCEPT ![t] = 1]
            /\ requests' = [requests EXCEPT ![t] = 1]
            /\ pc' = [pc EXCEPT ![t] = "http"]
            /\ result' = [result EXCEPT ![t] = "none"]
            /\ IssueRequest(t)
       ELSE /\ attempt' = [attempt EXCEPT ![t] = 0]
            /\ requests' = [requests EXCEPT ![t] = 0]
            /\ pc' = [pc EXCEPT ![t] = "done"]
            /\ UNCHANGED wireVars
            /\ result' = [result EXCEPT ![t] =
                   IF SendMessageCatches("TypeError") THEN "False" ELSE "raised"]

\* slip: the lock is not released after the append
AdmissionKeepsLock(t) ==
    /\ admitted' = Append(admitted, now)
    /\ slots' = [slots EXCEPT ![t] = @ + 1]
    /\ lock' = t

\* self.message_timestamps.append(time.time()), leaving the lock
Admission(t) ==
    /\ admitted' = Append(admitted, now)
    /\ slots' = [slots EXCEPT ![t] = @ + 1]
    /\ lock' = NoTask

\* Body of _wait_for_rate_limit once the lock is held, up to its first await
\* (the sleep) or, when it does not sleep, on to the first HTTP request.
LimiterBody(t, n, d) ==
    LET kept == Evict(message_timestamps, now) IN
    IF AtCapacity(kept, rate_limit)
    THEN IF kept = << >>
         THEN \* message_timestamps[0] raises IndexError; send_message
              \* does not catch it
              /\ message_timestamps' = kept
              /\ lock' = NoTask
              /\ pc' = [pc EXCEPT ![t] = "done"]
              /\ result' = [result EXCEPT ![t] = "raised"]
              /\ attempt' = [attempt EXCEPT ![t] = 0]
              /\ current_delay' = [current_delay EXCEPT ![t] = 0]
              /\ last_exception' = [last_exception EXCEPT ![t] = "None"]
              /\ requests' = [requests EXCEPT ![t] = 0]
              /\ sleeps' = [sleeps EXCEPT ![t] = << >>]
              /\ responses' = [responses EXCEPT ![t] = << >>]
              /\ UNCHANGED <<wake, slots, waited, admitted, wireVars>>
         ELSE IF WaitTime(kept, now) > 0
         THEN \* await asyncio.sleep(wait_time), the lock stays held
              /\ message_timestamps' = kept
              /\ lock' = t
              /\ pc' = [pc EXCEPT ![t] = "rl_sleep"]
              /\ wake' = [wake EXCEPT ![t] = now + WaitTime(kept, now)]
              /\ waited' = [waited EXCEPT ![t] = WaitTime(kept, now)]
              /\ UNCHANGED <<attempt, current_delay, last_exception, requests,
                             sleeps, responses, result, slots, admitted,
                             wireVars>>
         ELSE /\ message_timestamps' = DequeAppend(kept, now, rate_limit)
              /\ Admission(t)
              /\ StartRetry(t, n, d)
              /\ UNCHANGED <<wake, waited>>
    ELSE /\ message_timestamps' = DequeAppend(kept, now, rate_limit)
         /\ Admission(t)
         /\ StartRetry(t, n, d)
         /\ UNCHANGED <<wake, waited>>

(* ---- actions ---------------------------------------------------------- *)
\* slip: _wait_for_rate_limit runs without taking the lock
SendMessageNoLock(t, n, d) ==
    /\ constructed
    /\ pc[t] = "idle"
    /\ calls < MaxCalls
    /\ calls' = calls + 1
    /\ retry_attempts' = [retry_attempts EXCEPT ![t] = n]
    /\ retry_delay' = [retry_delay EXCEPT ![t] = d]
    /\ op' = [op EXCEPT ![t] = "send_message"]
    /\ LimiterBody(t, n, d)
    /\ UNCHANGED <<rate_limit, constructed, waiters, now, classified>>
    /\ UNCHANGED <<config, hostVars>>

\* A task calls send_message(phone, message, retry_attempts=n, retry_delay=d).
\* asyncio.Lock.acquire takes a free lock without suspending unless other
\* tasks are already queued for it.
SendMessage(t, n, d) ==
    /\ constructed
    /\ pc[t] = "idle"
    /\ calls < MaxCalls
    /\ calls' = calls + 1
    /\ retry_attempts' = [retry_attempts EXCEPT ![t] = n]
    /\ retry_delay' = [retry_delay EXCEPT ![t] = d]
    /\ op' = [op EXCEPT ![t] = "send_message"]
    /\ UNCHANGED classified
    /\ IF lock = NoTask /\ waiters = << >>
       THEN /\ LimiterBody(t, n, d)
            /\ UNCHANGED waiters
       ELSE /\ waiters' = Append(waiters, t)
            /\ pc' = [pc EXCEPT ![t] = "lock_wait"]
            /\ UNCHANGED <<message_timestamps, lock, wake, attempt,
                           current_delay, last_exception, requests, sleeps,
                           responses, result, slots, waited, admitted,
                           wireVars>>
    /\ UNCHANGED <<rate_limit, constructed, now>>
    /\ UNCHANGED <<config, hostVars>>

\* The first queued task gets the released lock and runs the limiter body.
LockAcquired(t) ==
    /\ pc[t] = "lock_wait"
    /\ lock = NoTask
    /\ waiters /= << >>
    /\ Head(waiters) = t
    /\ waiters' = Tail(waiters)
    /\ LimiterBody(t, retry_attempts[t], retry_delay[t])
    /\ UNCHANGED <<rate_limit, constructed, now, retry_attempts, retry_delay,
                   opVars, calls>>
    /\ UNCHANGED <<config, hostVars>>

\* slip: the timestamp appended after the sleep is the time read before it
RateLimitWakeStampsWaitStart(t) ==
    /\ pc[t] = "rl_sleep"
    /\ now >= wake[t]
    /\ message_timestamps' =
           DequeAppend(message_timestamps, wake[t] - waited[t], rate_limit)
    /\ Admission(t)
    /\ StartRetry(t, retry_attempts[t], retry_delay[t])
    /\ wake' = [wake EXCEPT ![t] = 0]
    /\ UNCHANGED <<rate_limit, constructed, waiters, now, retry_attempts,
                   retry_delay, waited, opVars, calls>>
    /\ UNCHANGED <<config, hostVars>>

\* asyncio.sleep(wait_time) is over: append time.time(), release the lock,
\* go on to the first HTTP request.
RateLimitWake(t) ==
    /\ pc[t] = "rl_sleep"
    /\ now >= wake[t]
    /\ message_timestamps' = DequeAppend(message_timestamps, now, rate_limit)
    /\ Admission(t)
    /\ StartRetry(t, retry_attempts[t], retry_delay[t])
    /\ wake' = [wake EXCEPT ![t] = 0]
    /\ UNCHANGED <<rate_limit, constructed, waiters, now, retry_attempts,
                   retry_delay, waited, opVars, calls>>
    /\ UNCHANGED <<config, hostVars>>

\* slip: the loop sleeps after the final failed attempt too
HttpResponseSleepsAfterLast(t, outcome) ==
    /\ pc[t] = "http"
    /\ op[t] = "send_message"
    /\ responses' = [responses EXCEPT ![t] = Append(@, outcome)]
    /\ classified' = [classified EXCEPT ![t] = Classification(outcome)]
    /\ LET r == SendOnce(outcome) IN
       IF ~RetryCatches(r)
       THEN /\ pc' = [pc EXCEPT ![t] = "done"]
            /\ result' = [result EXCEPT ![t] = "True"]
            /\ UNCHANGED <<last_exception, sleeps, wake>>
       ELSE /\ last_exception' = [last_exception EXCEPT ![t] = r]
            /\ IF LastAttempt(attempt[t], retry_attempts[t])
               THEN /\ pc' = [pc EXCEPT ![t] = "done"]
                    /\ result' = [result EXCEPT ![t] =
                           IF SendMessageCatches(r) THEN "False" ELSE "raised"]
                    /\ sleeps' = [sleeps EXCEPT ![t] = Append(@, current_delay[t])]
                    /\ UNCHANGED wake
               ELSE /\ pc' = [pc EXCEPT ![t] = "backoff"]
                    /\ sleeps' = [sleeps EXCEPT ![t] = Append(@, current_delay[t])]
                    /\ wake' = [wake EXCEPT ![t] = now + current_delay[t]]
                    /\ UNCHANGED result
    /\ UNCHANGED <<clientVars, now, retry_attempts, retry_delay, attempt,
                   current_delay, requests, slots, waited, op, admitted,
                   calls>>
    /\ UNCHANGED <<config, wireVars, hostVars>>

\* The gateway answers the request in flight (or the transport fails).
\* async_retry returns the value, or records the exception and either
\* gives up (raise last_exception -> send_message returns False) or sleeps.
HttpResponse(t, outcome) ==
    /\ pc[t] = "http"
    /\ op[t] = "send_message"
    /\ responses' = [responses EXCEPT ![t] = Append(@, outcome)]
    /\ classified' = [classified EXCEPT ![t] = Classification(outcome)]
    /\ LET r == SendOnce(outcome) IN
       IF ~RetryCatches(r)
       THEN /\ pc' = [pc EXCEPT ![t] = "done"]
            /\ result' = [result EXCEPT ![t] = "True"]
            /\ UNCHANGED <<last_exception, sleeps, wake>>
       ELSE /\ last_exception' = [last_exception EXCEPT ![t] = r]
            /\ IF LastAttempt(attempt[t], retry_attempts[t])
               THEN /\ pc' = [pc EXCEPT ![t] = "done"]
                    /\ result' = [result EXCEPT ![t] =
                           IF SendMessageCatches(r) THEN "False" ELSE "raised"]
                    /\ UNCHANGED <<sleeps, wake>>
               ELSE /\ pc' = [pc EXCEPT ![t] = "backoff"]
                    /\ sleeps' = [sleeps EXCEPT ![t] = Append(@, current_delay[t])]
                    /\ wake' = [wake EXCEPT ![t] = now + current_delay[t]]
                    /\ UNCHANGED result
    /\ UNCHANGED <<clientVars, now, retry_attempts, retry_delay, attempt,
                   current_delay, requests, slots, waited, op, admitted,
                   calls>>
    /\ UNCHANGED <<config, wireVars, hostVars>>

\* slip: every retry passes through _wait_for_rate_limit again
BackoffWakeReacquire(t) ==
    /\ pc[t] = "backoff"
    /\ now >= wake[t]
    /\ lock = NoTask
    /\ current_delay' = [current_delay EXCEPT ![t] = NextDelay(@)]
    /\ attempt' = [attempt EXCEPT ![t] = @ + 1]
    /\ requests' = [requests EXCEPT ![t] = @ + 1]
    /\ pc' = [pc EXCEPT ![t] = "http"]
    /\ wake' = [wake EXCEPT ![t] = 0]
    /\ message_timestamps' = DequeAppend(message_timestamps, now, rate_limit)
    /\ admitted' = Append(admitted, now)
    /\ slots' = [slots EXCEPT ![t] = @ + 1]
    /\ UNCHANGED <<rate_limit, constructed, lock, waiters, now, retry_attempts,
                   retry_delay, last_exception, sleeps, responses, result,
                   waited, opVars, calls>>
    /\ IssueRequest(t)
    /\ UNCHANGED <<config, hostVars>>

\* asyncio.sleep(current_delay) is over: grow the delay, next attempt.
BackoffWake(t) ==
    /\ pc[t] = "backoff"
    /\ now >= wake[t]
    /\ current_delay' = [current_delay EXCEPT ![t] = NextDelay(@)]
    /\ attempt' = [attempt EXCEPT ![t] = @ + 1]
    /\ requests' = [requests EXCEPT ![t] = @ + 1]
    /\ pc' = [pc EXCEPT ![t] = "http"]
    /\ wake' = [wake EXCEPT ![t] = 0]
    /\ UNCHANGED <<clientVars, now, retry_attempts, retry_delay,
                   last_exception, sleeps, responses, result, slots,
                   waited, opVars, admitted, calls>>
    /\ IssueRequest(t)
    /\ UNCHANGED <<config, hostVars>>

\* The caller has the outcome of its call; the task is free for another.
Return(t) ==
    /\ pc[t] = "done"
    /\ pc' = [pc EXCEPT ![t] = "idle"]
    /\ retry_attempts' = [retry_attempts EXCEPT ![t] = 0]
    /\ retry_delay' = [retry_delay EXCEPT ![t] = 0]
    /\ attempt' = [attempt EXCEPT ![t] = 0]
    /\ current_delay' = [current_delay EXCEPT ![t] = 0]
    /\ last_exception' = [last_exception EXCEPT ![t] = "None"]
    /\ requests' = [requests EXCEPT ![t] = 0]
    /\ sleeps' = [sleeps EXCEPT ![t] = << >>]
    /\ responses' = [responses EXCEPT ![t] = << >>]
    /\ result' = [result EXCEPT ![t] = "none"]
    /\ slots' = [slots EXCEPT ![t] = 0]
    /\ waited' = [waited EXCEPT ![t] = 0]
    /\ wake' = [wake EXCEPT ![t] = 0]
    /\ op' = [op EXCEPT ![t] = "none"]
    /\ classified' = [classified EXCEPT ![t] = NotClassified]
    /\ UNCHANGED <<clientVars, now, admitted, calls>>
    /\ headers' = [headers EXCEPT ![t] = NoHeaders]
    /\ UNCHANGED <<config, session, closing, orphans, hostVars>>

\* slip: the operation goes through the rate limiter's lock
OperationUnderLock(t, o) ==
    /\ constructed
    /\ pc[t] = "idle"
    /\ lock = NoTask
    /\ calls < MaxCalls
    /\ calls' = calls + 1
    /\ op' = [op EXCEPT ![t] = o]
    /\ pc' = [pc EXCEPT ![t] = "http"]
    /\ requests' = [requests EXCEPT ![t] = 1]
    /\ UNCHANGED <<clientVars, now, retry_attempts, retry_delay, attempt,
                   current_delay, last_exception, sleeps, responses, wake,
                   result, slots, waited, classified, admitted>>
    /\ IssueRequest(t)
    /\ UNCHANGED <<config, hostVars>>

\* slip: the timeout passed for one request replaces the client's default
OperationStoresTimeout(t, o) ==
    /\ constructed
    /\ pc[t] = "idle"
    /\ calls < MaxCalls
    /\ calls' = calls + 1
    /\ op' = [op EXCEPT ![t] = o]
    /\ pc' = [pc EXCEPT ![t] = "http"]
    /\ requests' = [requests EXCEPT ![t] = 1]
    /\ UNCHANGED <<clientVars, now, retry_attempts, retry_delay, attempt,
                   current_delay, last_exception, sleeps, responses, wake,
                   result, slots, waited, classified, admitted>>
    /\ IssueRequest(t)
    /\ config' = [config EXCEPT !.timeout = TEST_CONNECTION_TIMEOUT]
    /\ UNCHANGED hostVars

\* A task calls test_connection, get_session_status, get_qr_code or logout:
\* one request through _make_request, no lock, no retry.
Operation(t, o) ==
    /\ constructed
    /\ pc[t] = "idle"
    /\ calls < MaxCalls
    /\ calls' = calls + 1
    /\ op' = [op EXCEPT ![t] = o]
    /\ pc' = [pc EXCEPT ![t] = "http"]
    /\ requests' = [requests EXCEPT ![t] = 1]
    /\ UNCHANGED <<clientVars, now, retry_attempts, retry_delay, attempt,
                   current_delay, last_exception, sleeps, responses, wake,
                   result, slots, waited, classified, admitted>>
    /\ IssueRequest(t)
    /\ UNCHANGED <<config, hostVars>>

\* The gateway answers the request of such an operation.
OperationResponse(t, outcome) ==
    /\ pc[t] = "http"
    /\ op[t] \in SingleRequestOps
    /\ responses' = [responses EXCEPT ![t] = Append(@, outcome)]
    /\ classified' = [classified EXCEPT ![t] = Classification(outcome)]
    /\ pc' = [pc EXCEPT ![t] = "done"]
    /\ result' = [result EXCEPT ![t] = OperationResult(op[t], outcome)]
    /\ UNCHANGED <<clientVars, now, retry_attempts, retry_delay, attempt,
                   current_delay, last_exception, requests, sleeps, wake,
                   slots, waited, op, admitted, calls>>
    /\ UNCHANGED <<config, wireVars, hostVars>>

\* A task calls client.register_webhook(url), as the tests do: the attribute
\* lookup raises AttributeError.
RegisterWebhook(t) ==
    /\ constructed
    /\ pc[t] = "idle"
    /\ calls < MaxCalls
    /\ calls' = calls + 1
    /\ op' = [op EXCEPT ![t] = "register_webhook"]
    /\ pc' = [pc EXCEPT ![t] = IF HasRegisterWebhook THEN "http" ELSE "done"]
    /\ result' = [result EXCEPT ![t] =
           IF HasRegisterWebhook THEN "none" ELSE "raised"]
    /\ requests' = [requests EXCEPT ![t] = IF HasRegisterWebhook THEN 1 ELSE 0]
    /\ UNCHANGED <<clientVars, now, retry_attempts, retry_delay, attempt,
                   current_delay, last_exception, sleeps, responses, wake,
                   slots, waited, classified, admitted>>
    /\ UNCHANGED <<config, wireVars, hostVars>>

\* close(): an open session is closed and forgotten.  Here
\* "await self._session.close()" completes without suspending.
Close ==
    /\ constructed
    /\ session = "open"
    /\ session' = "None"
    /\ UNCHANGED <<clientVars, now, retryVars, callVars, opVars, admitted,
                   calls, config, headers, closing, orphans, hostVars>>

\* close() up to its await: the session is open, session.close() marks it
\* closed and suspends the caller while the connector shuts down.
CloseBegin ==
    /\ constructed
    /\ session = "open"
    /\ ~closing
    /\ session' = "closed"
    /\ closing' = TRUE
    /\ UNCHANGED <<clientVars, now, retryVars, callVars, opVars, admitted,
                   calls, config, headers, orphans, hostVars>>

\* what "self._session = None" leaves behind: one more open session nobody
\* refers to when self._session was replaced during the await
OrphansAfterClose(s, n) == IF s = "open" THEN n + 1 ELSE n

\* close() after its await: self._session = None, whatever self._session
\* refers to by now.
CloseEnd ==
    /\ closing
    /\ closing' = FALSE
    /\ orphans' = OrphansAfterClose(session, orphans)
    /\ session' = "None"
    /\ UNCHANGED <<clientVars, now, retryVars, callVars, opVars, admitted,
                   calls, config, headers, hostVars>>

\* WahaNotificationService.async_send_message(message, target=arg) on a
\* service with the given default recipients; the client's send_message
\* returns True, except for the call number failed (none when 0).
AsyncSendMessage(arg, defaults, message, failed) ==
    /\ LET targets == EffectiveTargets(arg, defaults)
           sent == NotifyCalls(targets, message)
           oks == [i \in 1..MaxTargets |-> i /= failed]
       IN  notify' = [arg |-> arg, defaults |-> defaults, message |-> message,
                      sent |-> sent,
                      errors |-> NotifyErrors(targets, sent, oks),
                      result |-> NotifyResult(targets, sent, oks)]
    /\ UNCHANGED <<clientVars, now, retryVars, callVars, opVars, admitted,
                   calls, config, wireVars, registry, sessions, clients_made,
                   history, webhook, service_entry, service, platforms>>

\* the registry, the clients and their sessions as one value
HostState ==
    [registry |-> registry, sessions |-> sessions,
     clients_made |-> clients_made, history |-> history,
     service_entry |-> service_entry, platforms |-> platforms]

SetHostState(h) ==
    /\ registry' = h.registry
    /\ sessions' = h.sessions
    /\ clients_made' = h.clients_made
    /\ history' = h.history
    /\ service_entry' = h.service_entry
    /\ platforms' = h.platforms
    /\ UNCHANGED <<clientVars, now, retryVars, callVars, opVars, admitted,
                   calls, config, wireVars, notify, webhook, service>>

\* The host sets up an entry that is not loaded: one never set up, one
\* whose latest setup raised ConfigEntryNotReady, or one unloaded since.
AsyncSetupEntry(e, outcome) ==
    /\ history[e].setup /= "ok" \/ history[e].unloaded
    /\ clients_made < MaxClients
    /\ SetHostState(SetupEntry(HostState, e, outcome))

\* The host unloads a stored entry; its platforms unload or fail to.
AsyncUnloadEntry(e, unload_ok) ==
    /\ registry[e] /= NoClient
    /\ SetHostState(UnloadEntry(HostState, e, unload_ok))

\* async_reload_entry, the update listener of a stored entry:
\* await async_unload_entry, then await async_setup_entry, whatever the
\* unload returned.
AsyncReloadEntry(e, unload_ok, outcome) ==
    /\ registry[e] /= NoClient
    /\ clients_made < MaxClients
    /\ SetHostState(SetupEntry(UnloadEntry(HostState, e, unload_ok), e, outcome))

\* An inbound request reaches handle_webhook.
HandleWebhook(webhook_id, body) ==
    /\ LET keys == RegistryKeys(registry)
           r == HandleWebhookResult(keys, webhook_id, body)
       IN  webhook' = [id |-> webhook_id, body |-> body, keys |-> keys,
                       valid |-> IsValidWebhookRequest(keys, webhook_id),
                       status |-> r.status, events |-> r.events]
    /\ UNCHANGED <<clientVars, now, retryVars, callVars, opVars, admitted,
                   calls, config, wireVars, registry, sessions, clients_made,
                   history, notify, service_entry, service, platforms>>

\* the clients of the entries that are loaded: stored, set up successfully
\* and not unloaded since
LoadedClients ==
    {registry[e] : e \in {x \in EntryIds : /\ registry[x] /= NoClient
                                            /\ history[x].setup = "ok"
                                            /\ ~history[x].unloaded}}

\* The waha.send_message service is called once it is registered.
ServiceSendMessage(phone_number) ==
    /\ service_entry /= NoEntry
    /\ LET r == ServiceSendMessageResult(registry, service_entry, phone_number)
       IN  service' = [phone_number |-> phone_number, loaded |-> LoadedClients,
                       outcome |-> r.outcome, client |-> r.client,
                       recipient |-> r.recipient]
    /\ UNCHANGED <<clientVars, now, retryVars, callVars, opVars, admitted,
                   calls, config, wireVars, registry, sessions, clients_made,
                   history, notify, webhook, service_entry, platforms>>

\* Time passes.
Tick(d) ==
    /\ now + d <= MaxTime
    /\ now' = now + d
    /\ UNCHANGED <<clientVars, retryVars, callVars, opVars, admitted, calls>>
    /\ UNCHANGED <<config, wireVars, hostVars>>

\* One caller at a time, every gateway outcome.
Next ==
    \/ \E t \in Callers, n \in RetryAttemptChoices, d \in RetryDelayChoices :
           SendMessage(t, n, d)
    \/ \E t \in Callers : RateLimitWake(t)
    \/ \E t \in Callers, o \in GatewayOutcomes : HttpResponse(t, o)
    \/ \E t \in Callers : BackoffWake(t)
    \/ \E t \in Callers : Return(t)
    \/ \E t \in Callers, o \in SingleRequestOps : Operation(t, o)
    \/ \E t \in Callers, o \in GatewayOutcomes \cup BodyOutcomes :
           OperationResponse(t, o)
    \/ \E t \in Callers : RegisterWebhook(t)
    \/ Close
    \/ \E d \in TickSteps : Tick(d)

Spec == Init /\ [][Next]_vars

\* Several tasks calling send_message concurrently on the one client.
NextConcurrent ==
    \/ \E t \in Tasks, n \in ConcurrentAttemptChoices, d \in ConcurrentDelayChoices :
           SendMessage(t, n, d)
    \/ \E t \in Tasks : LockAcquired(t)
    \/ \E t \in Tasks : RateLimitWake(t)
    \/ \E t \in Tasks, o \in ConcurrentOutcomes : HttpResponse(t, o)
    \/ \E t \in Tasks : BackoffWake(t)
    \/ \E t \in Tasks : Return(t)
    \/ \E d \in TickSteps : Tick(d)

\* The concurrent specifications construct the client with an API key.
InitKeyed == Init /\ config.api_key /= "None"

SpecConcurrent == InitKeyed /\ [][NextConcurrent]_vars

\* Several tasks on the one client, some sending messages and some calling
\* the operations that make a single request.
NextMixed ==
    \/ \E t \in Tasks, n \in ConcurrentAttemptChoices, d \in ConcurrentDelayChoices :
           SendMessage(t, n, d)
    \/ \E t \in Tasks : LockAcquired(t)
    \/ \E t \in Tasks : RateLimitWake(t)
    \/ \E t \in Tasks, o \in ConcurrentOutcomes : HttpResponse(t, o)
    \/ \E t \in Tasks : BackoffWake(t)
    \/ \E t \in Tasks : Return(t)
    \/ \E t \in Tasks, o \in SingleRequestOps : Operation(t, o)
    \/ \E t \in Tasks, o \in MixedOutcomes : OperationResponse(t, o)
    \/ \E d \in TickSteps : Tick(d)

SpecMixed == InitKeyed /\ [][NextMixed]_vars

\* the times at which the pending asyncio.sleep calls end
PendingWakes ==
    {wake[t] : t \in {u \in Tasks : /\ pc[u] \in {"rl_sleep", "backoff"}
                                    /\ wake[u] > now}}

\* Past the horizon of Tick the clock goes on for as long as a timer is
\* pending, so that every asyncio.sleep ends.
TickToWake(d) ==
    /\ now + d > MaxTime
    /\ PendingWakes /= {}
    /\ now' = now + d
    /\ UNCHANGED <<clientVars, retryVars, callVars, opVars, admitted, calls>>
    /\ UNCHANGED <<config, wireVars, hostVars>>

\* Concurrent send_message calls on an event loop that runs every ready
\* task and fires every timer, with a gateway that answers every request.
\* Calls start within the horizon; the clock runs past it only to let the
\* pending timers end.
NextFair ==
    \/ \E t \in FairCallers, n \in ConcurrentAttemptChoices,
             d \in ConcurrentDelayChoices :
           now <= MaxTime /\ SendMessage(t, n, d)
    \/ \E t \in FairCallers : LockAcquired(t)
    \/ \E t \in FairCallers : RateLimitWake(t)
    \/ \E t \in FairCallers, o \in ConcurrentOutcomes : HttpResponse(t, o)
    \/ \E t \in FairCallers : BackoffWake(t)
    \/ \E t \in FairCallers : Return(t)
    \/ \E d \in TickSteps : Tick(d)
    \/ \E d \in TickSteps : TickToWake(d)

Fairness ==
    /\ \A t \in FairCallers :
           /\ WF_vars(LockAcquired(t))
           /\ WF_vars(RateLimitWake(t))
           /\ WF_vars(BackoffWake(t))
           /\ WF_vars(\E o \in ConcurrentOutcomes : HttpResponse(t, o))
    /\ WF_vars(\E d \in TickSteps : Tick(d))
    /\ WF_vars(\E d \in TickSteps : TickToWake(d))

SpecFair == InitKeyed /\ [][NextFair]_vars /\ Fairness

\* close() racing with tasks that each run single-request operations on
\* the same client.
NextClose ==
    \/ \E t \in Tasks, o \in SingleRequestOps : Operation(t, o)
    \/ \E t \in Tasks, o \in MixedOutcomes : OperationResponse(t, o)
    \/ \E t \in Tasks : Return(t)
    \/ Close
    \/ CloseBegin
    \/ CloseEnd

\* One construction of the client, with an API key, stands for all.
InitClose == InitKeyed /\ rate_limit = 1

SpecClose == InitClose /\ [][NextClose]_vars

\* The client's own behaviour is not exercised by the host-side
\* specifications: one construction stands for all of them.
InitHost == Init /\ rate_limit = 1 /\ config.api_key = "None"

\* The notification service called with every kind of target argument, its
\* client answering True to every send_message or False to one of them.
NextNotify ==
    \E arg \in TargetArgs, defaults \in DefaultRecipientChoices,
       message \in MessageChoices, failed \in 0..MaxTargets :
        AsyncSendMessage(arg, defaults, message, failed)

SpecNotify == InitHost /\ [][NextNotify]_vars

\* The host platform setting up, unloading and reloading config entries and
\* delivering inbound webhook requests.
NextHost ==
    \/ \E e \in EntryIds, outcome \in SetupOutcomes : AsyncSetupEntry(e, outcome)
    \/ \E e \in EntryIds, unload_ok \in BOOLEAN : AsyncUnloadEntry(e, unload_ok)
    \/ \E e \in EntryIds, unload_ok \in BOOLEAN, outcome \in SetupOutcomes :
           AsyncReloadEntry(e, unload_ok, outcome)
    \/ \E webhook_id \in WebhookIds, body \in WebhookBodies :
           HandleWebhook(webhook_id, body)

SpecHost == InitHost /\ [][NextHost]_vars

\* Config entries set up, unloaded and reloaded in any order, and the
\* waha.send_message service called in between.
NextService ==
    \/ \E e \in EntryIds, outcome \in SetupOutcomes : AsyncSetupEntry(e, outcome)
    \/ \E e \in EntryIds, unload_ok \in BOOLEAN : AsyncUnloadEntry(e, unload_ok)
    \/ \E e \in EntryIds, unload_ok \in BOOLEAN, outcome \in SetupOutcomes :
           AsyncReloadEntry(e, unload_ok, outcome)
    \/ \E phone_number \in PhoneChoices : ServiceSendMessage(phone_number)

SpecService == InitHost /\ [][NextService]_vars

\* Both ways a recipient reaches the client's send_message: the
\* waha.send_message service of a set-up entry and the notification
\* service, each called with every kind of number.
NextRecipients ==
    \/ \E e \in EntryIds : AsyncSetupEntry(e, "ok")
    \/ \E phone_number \in PhoneChoices : ServiceSendMessage(phone_number)
    \/ \E arg \in TargetArgs : AsyncSendMessage(arg, << >>, "Hello!", 0)

SpecRecipients == InitHost /\ [][NextRecipients]_vars

(* ---- type invariant --------------------------------------------------- *)
TypeOK ==
    /\ rate_limit \in RateLimitChoices
    /\ constructed \in BOOLEAN
    /\ lock \in Tasks \cup {NoTask}
    /\ now \in 0..MaxTime
    /\ pc \in [Tasks -> {"idle", "lock_wait", "rl_sleep", "http", "backoff", "done"}]
    /\ result \in [Tasks -> {"none", "True", "False", "None", "value", "raised"}]
    /\ calls \in 0..MaxCalls


(* ---- properties ------------------------------------------------------- *)
\* the admissions whose timestamp lies in the 60 seconds starting at w
AdmittedIn(w) ==
    {i \in DOMAIN admitted : w <= admitted[i] /\ admitted[i] < w + WINDOW_SECONDS}

AllAre(seq, S) == \A i \in DOMAIN seq : seq[i] \in S

Admitted(t) ==
    /\ op[t] = "send_message"
    /\ \/ pc[t] \in {"http", "backoff"}
       \/ (pc[t] = "done" /\ result[t] \in {"True", "False"})

\* C1: with a rate limit N >= 1, under every interleaving of send_message
\* calls, no 60-second window of time (w <= ts < w + 60) holds more than N
\* admission timestamps.
RateLimitRespected ==
    rate_limit >= 1 =>
        \A w \in 0..MaxTime : Cardinality(AdmittedIn(w)) <= rate_limit

\* C1 witness: more than N calls were admitted, and the one after the first N
\* came exactly when the first was 60 seconds old.
RateLimitRespectedWitness ==
    /\ rate_limit >= 1
    /\ Len(admitted) > rate_limit
    /\ admitted[rate_limit + 1] = admitted[1] + WINDOW_SECONDS
    /\ \E t \in Tasks : waited[t] > 0 /\ slots[t] = 1

\* C2: from an empty window the first N calls are admitted without sleeping:
\* a caller sleeps in the limiter only when N were admitted before it, the
\* window is full, and it sleeps 60 - (now - oldest) > 0, that is until the
\* oldest timestamp is 60 seconds old; the (N+1)th admission is at least 60
\* seconds after the first.
BurstThenWait ==
    rate_limit >= 1 =>
        /\ \A t \in Tasks :
               pc[t] = "rl_sleep" =>
                   /\ Len(admitted) >= rate_limit
                   /\ Len(message_timestamps) = rate_limit
                   /\ waited[t] > 0
                   /\ wake[t] = Head(message_timestamps) + WINDOW_SECONDS
                   /\ lock = t
        /\ \A t \in Tasks : (Len(admitted) < rate_limit) => waited[t] = 0
        /\ Len(admitted) > rate_limit =>
               admitted[rate_limit + 1] >= admitted[1] + WINDOW_SECONDS

\* C2 witness: N admissions at one instant, then an (N+1)th that slept.
BurstThenWaitWitness ==
    /\ rate_limit >= 1
    /\ Len(admitted) = rate_limit + 1
    /\ admitted[rate_limit] = admitted[1]
    /\ \E t \in Tasks : waited[t] = WINDOW_SECONDS /\ Admitted(t)

\* C3: a send_message call appends exactly one timestamp, before its first
\* HTTP request; responses, retries and the failure of the call leave the
\* rate window as it is.
OneSlotPerCall ==
    [][ /\ \A t \in Tasks :
               /\ Admitted(t)' => slots'[t] = 1
               /\ slots'[t] <= 1
               /\ slots'[t] /= slots[t] =>
                      \/ slots'[t] = 0 /\ pc'[t] = "idle"
                      \/ slots[t] = 0 /\ requests[t] = 0
               /\ (op[t] = "send_message" /\ pc[t] \in {"http", "backoff"}
                     /\ pc'[t] /= pc[t]) =>
                      /\ message_timestamps' = message_timestamps
                      /\ admitted' = admitted
                      /\ slots'[t] = slots[t]
      ]_vars

\* C3 witness: a call that failed after three requests holds its one slot.
OneSlotPerCallWitness ==
    \E t \in Tasks :
        /\ pc[t] = "done"
        /\ result[t] = "False"
        /\ requests[t] = DEFAULT_RETRY_ATTEMPTS
        /\ slots[t] = 1
        /\ Len(admitted) = calls

\* a caller that has not yet entered the body of _wait_for_rate_limit
Outside(t) == pc[t] \in {"idle", "lock_wait"}

\* C11: from the moment a caller has read the window until it has appended
\* its timestamp, sleep included, it holds the lock, and no other caller
\* enters the body of _wait_for_rate_limit or changes message_timestamps:
\* the window changes only by the holder's own append.
LimiterSerialized ==
    [][ \A t \in Tasks :
            pc[t] = "rl_sleep" =>
                /\ lock = t
                /\ \A u \in Tasks \ {t} :
                       /\ pc[u] /= "rl_sleep"
                       /\ Outside(u) => Outside(u)'
                       /\ slots'[u] <= slots[u]
                /\ message_timestamps' /= message_timestamps =>
                       /\ pc'[t] /= "rl_sleep"
                       /\ slots'[t] = slots[t] + 1
                       /\ Len(admitted') = Len(admitted) + 1
      ]_vars

\* C11 witness: a caller was admitted after sleeping while another caller
\* is still queued for the lock behind it.
LimiterSerializedWitness ==
    \E t, u \in Tasks :
        /\ t /= u
        /\ waited[t] > 0
        /\ Admitted(t)
        /\ pc[u] = "lock_wait"
        /\ lock = NoTask

\* C4: once the gateway has answered 401, the call is over: one request,
\* no backoff sleep, failure reported.
NoRetryOn401 ==
    \A t \in Tasks :
        (op[t] = "send_message" /\ responses[t] /= << >> /\ responses[t][1] = "401") =>
            /\ pc[t] = "done"
            /\ result[t] = "False"
            /\ requests[t] = 1
            /\ sleeps[t] = << >>

\* C5: once the gateway has answered 429, the call is over: one request,
\* failure reported.
NoRetryOn429 ==
    \A t \in Tasks :
        (op[t] = "send_message" /\ responses[t] /= << >> /\ responses[t][1] = "429") =>
            /\ pc[t] = "done"
            /\ result[t] = "False"
            /\ requests[t] = 1

\* C6: a 200 answer to the first attempt ends the call with True, after one
\* request and no backoff sleep.
FirstAttemptSuccess ==
    \A t \in Tasks :
        (op[t] = "send_message" /\ responses[t] /= << >> /\ responses[t][1] = "200") =>
            /\ pc[t] = "done"
            /\ result[t] = "True"
            /\ requests[t] = 1
            /\ Len(responses[t]) = 1
            /\ sleeps[t] = << >>

\* C6 witness: a call with the default retry settings answered 200 at once.
FirstAttemptSuccessWitness ==
    \E t \in Tasks :
        /\ retry_attempts[t] = DEFAULT_RETRY_ATTEMPTS
        /\ responses[t] = <<"200">>
        /\ result[t] = "True"

\* C7: with the default retry settings, answers 500, 500, 200 give True
\* after three requests, with sleeps of 1 and then 2 seconds between them.
BackoffThenSuccess ==
    \A t \in Tasks :
        (/\ retry_attempts[t] = DEFAULT_RETRY_ATTEMPTS
         /\ retry_delay[t] = DEFAULT_RETRY_DELAY
         /\ responses[t] = <<"500", "500", "200">>) =>
            /\ pc[t] = "done"
            /\ result[t] = "True"
            /\ requests[t] = 3
            /\ sleeps[t] = <<1, 2>>

\* C7 witness: such a call has returned.
BackoffThenSuccessWitness ==
    \E t \in Tasks :
        /\ responses[t] = <<"500", "500", "200">>
        /\ pc[t] = "done"
        /\ sleeps[t] = <<1, 2>>

\* connection errors and generic API errors
TransientOutcomes == {"500", "timeout", "client_error"}

\* C8: a call all of whose attempts failed with a connection error or a
\* generic API error goes on until it has issued retry_attempts requests,
\* and then returns False.
RetriesExhausted ==
    \A t \in Tasks :
        (op[t] = "send_message" /\ responses[t] /= << >> /\ AllAre(responses[t], TransientOutcomes)) =>
            /\ requests[t] <= retry_attempts[t]
            /\ pc[t] = "done" <=> Len(responses[t]) = retry_attempts[t]
            /\ pc[t] = "done" =>
                   requests[t] = retry_attempts[t] /\ result[t] = "False"

\* C8 witness: three failures of three kinds, and the call returned False.
RetriesExhaustedWitness ==
    \E t \in Tasks :
        /\ responses[t] = <<"timeout", "500", "client_error">>
        /\ requests[t] = DEFAULT_RETRY_ATTEMPTS
        /\ result[t] = "False"

\* C9: on a client with rate limit >= 1, send_message never raises: a call
\* that is over returned True or False.
NeverRaises ==
    rate_limit >= 1 =>
        \A t \in Tasks :
            op[t] = "send_message" =>
                /\ result[t] /= "raised"
                /\ pc[t] = "done" => result[t] \in {"True", "False"}

\* C9 witness: calls that met an exception no except clause of _make_request
\* names, or that had no attempt at all, returned False.
NeverRaisesWitness ==
    /\ rate_limit >= 1
    /\ \E t \in Tasks :
           /\ op[t] = "send_message"
           /\ pc[t] = "done"
           /\ result[t] = "False"
           /\ \/ last_exception[t] = "UnicodeDecodeError"
              \/ retry_attempts[t] = 0

\* C10: the constructor rejects a rate limit of 0 or less, so no call ever
\* enters _wait_for_rate_limit on such a client.
ConstructorRejectsNonPositive ==
    /\ constructed => rate_limit >= 1
    /\ calls > 0 => rate_limit >= 1

LastOf(seq) == seq[Len(seq)]

\* C12: register_webhook returns True or False like send_message does (True
\* on 200, False on repeated 500) and appends no timestamp.
RegisterWebhookContract ==
    \A t \in Tasks :
        (op[t] = "register_webhook" /\ pc[t] = "done") =>
            /\ result[t] \in {"True", "False"}
            /\ slots[t] = 0

\* C13: test_connection never raises; it returns True exactly for a 200
\* whose JSON body is an object with "version", and False for every other
\* status, for a timeout, a connection failure and a malformed body.
TestConnectionSafe ==
    \A t \in Tasks :
        (op[t] = "test_connection" /\ pc[t] = "done") =>
            /\ result[t] \in {"True", "False"}
            /\ requests[t] = 1
            /\ result[t] = "True" <=> responses[t] = <<"200">>

\* C13 witness: test_connection returned False on a body that is a JSON
\* value but not an object.
TestConnectionSafeWitness ==
    \E t \in Tasks :
        /\ op[t] = "test_connection"
        /\ responses[t] = <<"200_not_object">>
        /\ result[t] = "False"

\* C14: get_session_status, get_qr_code and logout issue one request and
\* never raise: on any failure of the request or of its response they return
\* None (status, QR) or False (logout).
SingleAttemptNeverRaises ==
    \A t \in Tasks :
        (op[t] \in {"get_session_status", "get_qr_code", "logout"}
         /\ pc[t] = "done") =>
            /\ requests[t] = 1
            /\ Len(responses[t]) = 1
            /\ result[t] /= "raised"
            /\ responses[t][1] \notin {"200", "200_no_field"} =>
                   result[t] = IF op[t] = "logout"
                               THEN IF responses[t][1] = "200_not_object"
                                    THEN "True" ELSE "False"
                               ELSE "None"

HttpStatus(outcome) ==
    CASE outcome \in {"200", "200_no_field", "200_not_object",
                      "200_invalid_json", "200_undecodable",
                      "200_wrong_type"} -> 200
      [] outcome = "401" -> 401
      [] outcome = "429" -> 429
      [] outcome = "500" -> 500
      [] OTHER -> 0

\* the classes of C16, by status alone
ClassByStatus(outcome) ==
    CASE HttpStatus(outcome) = 200 -> "ok"
      [] HttpStatus(outcome) = 401 -> "WahaAuthenticationError"
      [] HttpStatus(outcome) = 429 -> "WahaRateLimitError"
      [] HttpStatus(outcome) = 0 -> "WahaConnectionError"
      [] OTHER -> "WahaApiError"

WindowBoundedAndOrdered ==
    constructed =>
        /\ Len(message_timestamps) <= rate_limit
        /\ \A i \in 1..(Len(message_timestamps) - 1) :
               message_timestamps[i] <= message_timestamps[i + 1]

\* C18 witness: a caller that had to wait was admitted into a full window,
\* which still holds rate_limit timestamps, the older one in front.
WindowBoundedAndOrderedWitness ==
    \E t \in Tasks :
        /\ waited[t] > 0
        /\ Admitted(t)
        /\ rate_limit >= 2
        /\ Len(message_timestamps) = rate_limit
        /\ Len(admitted) > rate_limit
        /\ message_timestamps[1] < message_timestamps[rate_limit]

\* every retained timestamp of window q is at most 60 seconds before t
WithinTrailingWindow(q, t) ==
    \A i \in DOMAIN q : t - q[i] <= WINDOW_SECONDS

\* C19 as stated: in every reachable state, at every clock value, every
\* timestamp retained in the rate window lies within the trailing 60 seconds.
AlwaysWithinTrailingWindow == WithinTrailingWindow(message_timestamps, now)

\* C19 as amended: eviction happens only inside _wait_for_rate_limit, so the
\* window is within the trailing 60 seconds at every admission decision:
\* in the state a caller leaves once it holds the lock and has run the
\* eviction loop (whether it then sleeps or appends at once), every
\* retained timestamp is at most 60 seconds old.
WithinTrailingWindowAtDecision ==
    [][ \A t \in Tasks :
            (Outside(t) /\ ~Outside(t)') =>
                WithinTrailingWindow(message_timestamps', now')
      ]_vars

\* C19 witness: a caller was admitted at the current instant after the
\* eviction loop removed a timestamp older than 60 seconds (the window had
\* room for both).
WithinTrailingWindowAtDecisionWitness ==
    \E t \in Tasks :
        /\ Admitted(t)
        /\ rate_limit >= 2
        /\ Len(admitted) >= 2
        /\ now - admitted[1] > WINDOW_SECONDS
        /\ message_timestamps = <<now>>

\* C17: while a task is suspended inside _wait_for_rate_limit (asleep,
\* holding the lock), every idle task can start test_connection,
\* get_session_status, get_qr_code or logout, and every such operation in
\* flight can complete; the only tasks that wait for the lock are
\* send_message callers.
OperationsNotBlocked ==
    \A t \in Tasks :
        pc[t] = "rl_sleep" =>
            \A u \in Tasks \ {t} :
                /\ (pc[u] = "idle" /\ calls < MaxCalls) =>
                       \A o \in SingleRequestOps : ENABLED Operation(u, o)
                /\ (pc[u] = "http" /\ op[u] \in SingleRequestOps) =>
                       \A o \in MixedOutcomes : ENABLED OperationResponse(u, o)
                /\ pc[u] = "lock_wait" => op[u] = "send_message"
                /\ op[u] \in SingleRequestOps => pc[u] \in {"http", "done"}

\* C17 witness: one task sleeps in the limiter holding the lock while
\* another task's get_session_status is under way on the same client.
OperationsNotBlockedWitness ==
    \E t, u \in Tasks :
        /\ pc[t] = "rl_sleep"
        /\ lock = t
        /\ now < wake[t]
        /\ op[u] = "get_session_status"
        /\ pc[u] = "http"

\* C20: with rate_limit >= 1, under fairness and with every request
\* answered, every send_message call in progress eventually returns True or
\* False, having made no more requests than its retry_attempts.
SendMessageTerminates ==
    \A t \in Tasks :
        (rate_limit >= 1 /\ op[t] = "send_message" /\ pc[t] /= "done")
            ~> /\ op[t] = "send_message"
               /\ pc[t] = "done"
               /\ result[t] \in {"True", "False"}
               /\ requests[t] <= retry_attempts[t]

\* C20 witness: a call that first queued for the lock or slept for
\* admission, and then used up its attempts, has returned False.
SendMessageTerminatesWitness ==
    \E t \in Tasks :
        /\ rate_limit >= 1
        /\ op[t] = "send_message"
        /\ waited[t] > 0
        /\ pc[t] = "done"
        /\ result[t] = "False"
        /\ requests[t] = retry_attempts[t]
        /\ Len(sleeps[t]) = retry_attempts[t] - 1

\* C21: no step of any client operation (send_message, test_connection,
\* get_session_status, get_qr_code, logout, close) changes base_url,
\* api_key, session_name, the default timeout or rate_limit.
ConfigurationFrozen ==
    [][config' = config /\ rate_limit' = rate_limit]_vars

\* C21 witness: a send_message call has made its requests and returned, and
\* close() has since closed the session, with the configuration as
\* constructed.
ConfigurationFrozenWitness ==
    \E t \in Tasks :
        /\ op[t] = "send_message"
        /\ pc[t] = "done"
        /\ requests[t] >= 2
        /\ session = "None"
        /\ config.timeout = DEFAULT_TIMEOUT

\* C22: every request that is out carries Authorization: Bearer <key> when
\* an API key is configured and no Authorization header when none is.
AuthorizationHeader ==
    \A t \in Tasks :
        pc[t] = "http" =>
            IF config.api_key = "None"
            THEN headers[t].Authorization.scheme = "none"
            ELSE headers[t].Authorization =
                     [scheme |-> "Bearer", credentials |-> config.api_key]

\* C22 witness: a retried request of a client constructed without API key
\* is out, and it has no Authorization header.
AuthorizationHeaderWitness ==
    \E t \in Tasks :
        /\ pc[t] = "http"
        /\ attempt[t] >= 2
        /\ config.api_key = "None"
        /\ headers[t] = NoHeaders

\* the targets the latest notify call went through
NotifyTargets == EffectiveTargets(notify.arg, notify.defaults)

\* C23: the notification service makes no send_message call for a target
\* that fails validation; when a target fails validation the invalid number
\* is logged as an error and the call returns failure.
InvalidNumberNotSent ==
    /\ \A i \in DOMAIN notify.sent :
           ValidatePhoneNumber(notify.sent[i].target) /= None
    /\ Len(notify.sent) =
           Cardinality({i \in DOMAIN NotifyTargets :
                            ValidatePhoneNumber(NotifyTargets[i]) /= None})
    /\ (\E i \in DOMAIN NotifyTargets :
            ValidatePhoneNumber(NotifyTargets[i]) = None) =>
           /\ "invalid_number" \in notify.errors
           /\ notify.result = "False"

\* C23 witness: a call with one invalid and one valid target sent to the
\* valid one only and returned failure.
InvalidNumberNotSentWitness ==
    /\ notify.arg = [kind |-> "list", list |-> << <<"x">>, <<"+", "d10">> >>]
    /\ Len(notify.sent) = 1
    /\ notify.sent[1].target = <<"+", "d10">>
    /\ notify.result = "False"

\* C24: a call with no target on a service without default recipients makes
\* no send_message call and returns failure.
NoTargetsNoSend ==
    (/\ notify.result /= "none"
     /\ notify.arg.list = << >>
     /\ notify.defaults = << >>) =>
        /\ notify.sent = << >>
        /\ notify.result = "False"

\* C24 witness: such a call was made.
NoTargetsNoSendWitness ==
    /\ notify.result = "False"
    /\ notify.arg.kind = "none"
    /\ notify.defaults = << >>
    /\ "no_recipients" \in notify.errors

\* a phone number in +<digits> form
PlusDigitsForm(ph) ==
    /\ Len(ph) >= 2
    /\ Head(ph) = "+"
    /\ AllDigits(Tail(ph))

\* C25: for a valid target in +<digits> form the service calls send_message
\* with that phone number as the recipient and the message text unchanged.
RecipientIsPhoneNumber ==
    \A i \in DOMAIN notify.sent :
        PlusDigitsForm(notify.sent[i].target) =>
            /\ notify.sent[i].recipient = notify.sent[i].target
            /\ notify.sent[i].message = notify.message

\* the config-entry id is_valid_webhook_request derives from a webhook id:
\* what is left of it once "waha_" and "_webhook" are taken out
DerivedEntryId(webhook_id) ==
    SelectSeq(webhook_id, LAMBDA piece : piece \notin {"waha_", "_webhook"})

\* C26: is_valid_webhook_request returns True exactly when the webhook id
\* starts with "waha_" and the config-entry id derived from it is a key of
\* the registry; it returns False for any other prefix and for any entry id
\* that is not registered.
ValidExactlyWhenRegistered ==
    webhook.status /= "none" =>
        /\ webhook.valid =
               (/\ webhook.id /= << >>
                /\ Head(webhook.id) = "waha_"
                /\ DerivedEntryId(webhook.id) \in webhook.keys)
        /\ (webhook.status = "403") = ~webhook.valid

\* a request for a registered entry was accepted while another entry was not
\* registered
ValidExactlyWhenRegisteredWitness ==
    /\ webhook.status = "200"
    /\ webhook.valid
    /\ webhook.id = WebhookIdOf(<<"abc">>)
    /\ webhook.keys = {<<"abc">>}

\* C27: the timestamp recorded for a caller that waited is the time read
\* once the wait is over, not the time at which it started waiting: it is
\* the current time of the admission step, later than the start of the wait,
\* and at least 60 seconds after the oldest timestamp the caller waited on.
AdmissionStampedAfterWait ==
    [][ \A t \in Tasks :
            (pc[t] = "rl_sleep" /\ pc'[t] /= "rl_sleep") =>
                /\ LastOf(message_timestamps') = now'
                /\ LastOf(admitted') = now'
                /\ now' >= wake[t]
                /\ now' > wake[t] - waited[t]
                /\ now' - Head(message_timestamps) >= WINDOW_SECONDS
      ]_vars

\* a caller that waited has been admitted, and its timestamp is 60 seconds
\* or more after the admission rate_limit places before it
AdmissionStampedAfterWaitWitness ==
    \E t \in Tasks :
        /\ Admitted(t)
        /\ waited[t] > 0
        /\ Len(admitted) > rate_limit
        /\ LastOf(message_timestamps) = LastOf(admitted)
        /\ LastOf(admitted) - admitted[Len(admitted) - rate_limit]
               >= WINDOW_SECONDS

\* C28: the handler answers 403 when validation fails, 400 when the body is
\* not JSON or lacks "sender" or "body", 200 otherwise; it fires exactly one
\* waha_message_received event when it answers 200 and none otherwise.
WebhookAnswers ==
    webhook.status /= "none" =>
        /\ webhook.status =
               IF ~webhook.valid THEN "403"
               ELSE IF webhook.body /= "object_full" THEN "400"
               ELSE "200"
        /\ webhook.events =
               IF webhook.status = "200" THEN <<"waha_message_received">>
               ELSE << >>

\* C29: an entry id is a key of the registry exactly when its latest setup
\* succeeded and it was not successfully unloaded since; a failed setup
\* stores nothing; an unload that removes the entry has closed its client's
\* session.
RegistryMatchesSetups ==
    [][ \A e \in EntryIds :
            /\ (registry'[e] /= NoClient) =
                   (history'[e].setup = "ok" /\ ~history'[e].unloaded)
            /\ (history'[e] /= history[e] /\ history'[e].setup = "failed") =>
                   registry'[e] \in {registry[e], NoClient}
            /\ (registry[e] /= NoClient /\ registry'[e] = NoClient) =>
                   sessions'[registry[e]] = "closed"
      ]_vars

\* C30: every session a client ever opened is closed, or the client is the
\* one stored in the registry for its entry.
NoOrphanSession ==
    \A c \in ClientIds :
        sessions[c] = "open" => \E e \in EntryIds : registry[e] = c

\* C31: under every interleaving of close() with concurrent requests, every
\* session _get_session created is still referenced by the client or has
\* been closed, and when close() returns with no request in flight the
\* client holds no open session.
NoSessionLost ==
    [][ /\ orphans' = 0
        /\ ( /\ \/ (closing /\ ~closing')
                 \/ (~closing /\ session = "open" /\ session' = "None")
              /\ \A t \in Tasks : pc[t] /= "http" )
           => session' /= "open"
      ]_vars

\* C32: whenever the waha.send_message service is called with a valid phone
\* number while at least one entry is loaded, the message is dispatched
\* through the client of an entry that is loaded at that time.
ServiceUsesLoadedEntry ==
    ( /\ service.outcome /= "none"
      /\ ValidatePhoneNumber(service.phone_number) /= None
      /\ service.loaded /= {} )
        => /\ service.outcome = "sent"
           /\ service.client \in service.loaded

\* C33: in a send_message call that made an attempt, async_retry stops at
\* the first successful attempt (every response before the latest one was a
\* failure, and no request follows a success); the backoff sleeps number
\* one less than the attempts made, a sleep being under way only between
\* two attempts, so none follows the final failed attempt; on exhaustion
\* the exception raised is the one of the final attempt.
RetryStopsAndSleepsBetween ==
    \A t \in Tasks :
        (op[t] = "send_message" /\ requests[t] >= 1) =>
            /\ pc[t] = "http" =>
                   /\ Len(responses[t]) = requests[t] - 1
                   /\ Len(sleeps[t]) = requests[t] - 1
            /\ pc[t] = "backoff" =>
                   /\ Len(responses[t]) = requests[t]
                   /\ Len(sleeps[t]) = requests[t]
                   /\ requests[t] < retry_attempts[t]
            /\ pc[t] = "done" =>
                   /\ Len(responses[t]) = requests[t]
                   /\ Len(sleeps[t]) = requests[t] - 1
            /\ \A i \in 1..(Len(responses[t]) - 1) :
                   RetryCatches(SendOnce(responses[t][i]))
            /\ (pc[t] = "done" /\ result[t] = "True") =>
                   SendOnce(LastOf(responses[t])) = "True"
            /\ (pc[t] = "done" /\ result[t] /= "True") =>
                   /\ requests[t] = retry_attempts[t]
                   /\ last_exception[t] = SendOnce(LastOf(responses[t]))

\* three attempts failed, two sleeps were made, and the exception raised is
\* that of the third attempt, which differs from the earlier ones
RetryStopsAndSleepsBetweenWitness ==
    \E t \in Tasks :
        /\ op[t] = "send_message"
        /\ pc[t] = "done"
        /\ requests[t] = DEFAULT_RETRY_ATTEMPTS
        /\ Len(sleeps[t]) = DEFAULT_RETRY_ATTEMPTS - 1
        /\ SendOnce(responses[t][1]) /= SendOnce(LastOf(responses[t]))
        /\ last_exception[t] = SendOnce(LastOf(responses[t]))
        /\ result[t] = "False"

\* C34: send_message called with retry_attempts <= 0 consumes one rate-limit
\* slot, issues no HTTP request (async_retry never calls _send and ends in
\* an error) and returns False.
NoAttemptsReturnsFalse ==
    \A t \in Tasks :
        (op[t] = "send_message" /\ retry_attempts[t] <= 0) =>
            /\ requests[t] = 0
            /\ responses[t] = << >>
            /\ pc[t] \notin {"http", "backoff"}
            /\ pc[t] = "done" => (slots[t] = 1 /\ result[t] = "False")

\* C35: the result of send_message depends on the HTTP statuses and the
\* transport failures only: a 200 response ends the call with True whatever
\* its body, and a call that returned True ended on a 200.
ResultByStatusOnly ==
    \A t \in Tasks :
        op[t] = "send_message" =>
            /\ \A i \in DOMAIN responses[t] :
                   HttpStatus(responses[t][i]) = 200 =>
                       /\ i = Len(responses[t])
                       /\ pc[t] = "done"
                       /\ result[t] = "True"
            /\ result[t] = "True" => HttpStatus(LastOf(responses[t])) = 200

\* C36: for every entry id in the registry, the webhook id made for it by
\* WEBHOOK_ID_TEMPLATE is accepted by is_valid_webhook_request, and so the
\* handler does not answer 403, also when the entry id itself contains
\* "waha_" or "_webhook".
TemplateIdAccepted ==
    \A e \in EntryIds :
        (/\ webhook.status /= "none"
         /\ e \in webhook.keys
         /\ webhook.id = WebhookIdOf(e)) =>
            /\ webhook.valid
            /\ webhook.status /= "403"

\* the targets that pass validate_phone_number, in the order given
ValidTargets(targets) ==
    SelectSeq(targets, LAMBDA target : ValidatePhoneNumber(target) /= None)

\* C37: a notify call with targets goes through them in the order given,
\* makes exactly one send_message call per valid target, also after an
\* invalid target or a failed send, and returns True exactly when every
\* target was valid and every send returned True.
NotifySequential ==
    (notify.result /= "none" /\ NotifyTargets /= << >>) =>
        /\ [i \in DOMAIN notify.sent |-> notify.sent[i].target]
               = ValidTargets(NotifyTargets)
        /\ \A i \in DOMAIN notify.sent :
               /\ notify.sent[i].recipient
                      = ChatId(ValidatePhoneNumber(notify.sent[i].target))
               /\ notify.sent[i].message = notify.message
        /\ (notify.result = "True") =
               (/\ ValidTargets(NotifyTargets) = NotifyTargets
                /\ "send_failed" \notin notify.errors)

\* every target was valid, one of the sends failed, a send was made for
\* every target all the same, and the call returned False
NotifySequentialWitness ==
    /\ notify.arg.kind = "list"
    /\ Len(notify.arg.list) = MaxTargets
    /\ Len(notify.sent) = MaxTargets
    /\ notify.errors = {"send_failed"}
    /\ notify.result = "False"

\* <10 to 15 digits>@c.us
ChatIdForm(recipient) ==
    /\ Len(recipient) >= 2
    /\ recipient[Len(recipient)] = "@c.us"
    /\ LET number == SubSeq(recipient, 1, Len(recipient) - 1) IN
           /\ AllDigits(number)
           /\ DigitCount(number) \in PHONE_MIN_DIGITS..PHONE_MAX_DIGITS

\* the recipient the claim names for an input: the validated number without
\* its leading '+', followed by @c.us
ChatIdOf(phone_number) ==
    Tail(ValidatePhoneNumber(phone_number)) \o <<"@c.us">>

PlatformsFindTheirKeys ==
    \A e \in EntryIds :
        (history[e].setup = "ok" /\ ~history[e].unloaded) =>
            /\ platforms[e].sensor.result = "ok"
            /\ platforms[e].sensor.api_client = registry[e]
            /\ platforms[e].notify.result = "ok"
            /\ platforms[e].notify.client = registry[e]
            /\ platforms[e].notify.default_recipients = ConfiguredPhoneNumbers

====
